---- MODULE Spec2Model ----
(***************************************************************************)
(* A model of the full-stack demonstration: the Express backend of         *)
(* server/index.js (in its two variants, cors() and cors({origin: [...],   *)
(* credentials: true})) and the React component App of the client.         *)
(*                                                                         *)
(* The backend is the middleware chain express.json() -> cors(...) ->      *)
(* app.get("/api/message") -> the framework's final handler, applied to    *)
(* requests drawn from a finite alphabet.  The client is one promise chain *)
(* per mount: fetch -> res.json() -> setMessage(data.message), with a      *)
(* trailing catch that writes one console line.                            *)
(***************************************************************************)
EXTENDS Naturals, Sequences, FiniteSets, TLC

VARIABLES
    variant,    \* which server/index.js is deployed: "open" or "allowlist"
    slot,       \* the backend's requests in flight, one record per connection
    pc,         \* per mount: the position of App's effect and promise chain
    settled,    \* per mount: how the fetch promise settled
    chain,      \* per mount: the value or rejection travelling down the chain
    message,    \* per mount: the useState("") value
    text,       \* per mount: the text of the <h2> as last rendered
    dirty,      \* per mount: a state change awaits its re-render
    shown,      \* per mount: the message value of the last render
    fetches,    \* per mount: calls of fetch("/api/message")
    setCalls,   \* per mount: calls of setMessage
    logs,       \* per mount: console.log lines written
    changes,    \* per mount: times the message state changed its value
    unhandled   \* per mount: the chain ended in an unhandled rejection

serverVars == <<variant, slot>>
clientVars == <<pc, settled, chain, message, text, dirty, shown, fetches,
                setCalls, logs, changes, unhandled>>
vars == <<variant, slot, pc, settled, chain, message, text, dirty, shown,
          fetches, setCalls, logs, changes, unhandled>>

----------------------------------------------------------------------------
(* Bounds of the model.                                                    *)

MaxInFlight == 2
MaxMounts == 2
MaxFetches == 2

----------------------------------------------------------------------------
(* The backend: server/index.js.                                           *)

Variants == {"open", "allowlist"}

Connections == 1 .. MaxInFlight

\* A header that is not set.
Absent == "(absent)"

\* The origin array of cors({origin: [...]}).
origin ==
    {"http://localhost:5173", "http://localhost:5174", "http://localhost:3000"}

\* Origin headers of the requests: the three listed ones, one that is not
\* listed, and none.
Origins == origin \cup {"http://evil.example", Absent}

Methods == {"GET", "HEAD", "POST", "PUT", "DELETE", "PATCH", "OPTIONS"}

Paths == {"/api/message", "/api/message/", "/API/Message", "/api/other"}

\* What a request carries as its body:
\*   none       no body (no Content-Length, no Transfer-Encoding)
\*   text       a body whose Content-Type is not application/json
\*   empty      Content-Type: application/json, Content-Length: 0
\*   object     application/json, a well-formed object
\*   array      application/json, a well-formed array
\*   primitive  application/json, a well-formed JSON value that is neither
\*   malformed  application/json, not JSON
\*   oversize   application/json, larger than the parser's limit
Payloads ==
    {"none", "text", "empty", "object", "array", "primitive", "malformed",
     "oversize"}

Requests ==
    [method : Methods, path : Paths, origin : Origins, payload : Payloads]

\* The requests of the concurrent specification.
ConcRequests ==
    [method : {"GET", "POST", "OPTIONS"},
     path : {"/api/message", "/api/other"},
     origin : {"http://localhost:5173", "http://evil.example", Absent},
     payload : {"none", "malformed"}]

\* Response bodies.  A JSON object is the set of its <<field, value>> pairs.
JsonObject(fields) == [kind |-> "json", fields |-> fields]
JsonNull == [kind |-> "jsonnull", fields |-> {}]
HtmlPage == [kind |-> "html", fields |-> {}]
NoBody == [kind |-> "empty", fields |-> {}]

\* { message: "Hello from Server" }
Payload == JsonObject({<<"message", "Hello from Server">>})

\* express.json(): "next" when the request goes on down the chain, else the
\* status of the error it passes to next(err).  The parser looks at the body
\* of every request, whatever its method; in its default strict mode it
\* accepts only objects and arrays, and an empty body parses to {}.
ExpressJson(req) ==
    CASE req.payload \in {"none", "text", "empty", "object", "array"} -> "next"
      [] req.payload = "oversize" -> "413"
      [] OTHER -> "400"

\* A cors() configured with origin: true, which reflects whatever origin asks.
CorsOriginReflected(v, req) ==
    IF v = "open" THEN "*" ELSE req.origin

\* A cors() configured with the first listed origin alone, as a string: every
\* listed origin is answered with that one.
CorsOriginFirstListed(v, req) ==
    IF v = "open" THEN "*"
    ELSE IF req.origin \in origin THEN "http://localhost:5173" ELSE Absent

\* The Access-Control-Allow-Origin header cors() sets.
CorsOrigin(v, req) ==
    IF v = "open" THEN "*"
    ELSE IF req.origin \in origin THEN req.origin ELSE Absent

\* The Access-Control-Allow-Credentials header cors() sets.
CorsCredentials(v, req) ==
    IF v = "allowlist" THEN "true" ELSE Absent

\* cors() ends an OPTIONS request itself (the preflight answer, 204).
CorsEnds(req) == req.method = "OPTIONS"

\* Express's route matching with its default settings: the path is compared
\* without regard to case, and one trailing slash is ignored.
LowerCase(p) == IF p = "/API/Message" THEN "/api/message" ELSE p

StripSlash(p) == IF p = "/api/message/" THEN "/api/message" ELSE p

PathMatches(p) == StripSlash(LowerCase(p)) = "/api/message"

\* A route registered with app.all or app.use, which serves every method.
RouteMatchesAnyMethod(req) == PathMatches(req.path)

\* app.get(path, ...) serves GET and, with it, HEAD.
RouteMatches(req) ==
    /\ req.method \in {"GET", "HEAD"}
    /\ PathMatches(req.path)

\* A handler that adds a second field to the object it sends.
RouteHandlerTwoFields(req) ==
    [status |-> 200,
     body |-> IF req.method = "HEAD" THEN NoBody
              ELSE JsonObject({<<"message", "Hello from Server">>,
                               <<"status", "ok">>})]

\* A handler that reports a module-level count of the requests being served.
RouteHandlerCounting(req) ==
    LET busy == {s \in Connections : slot[s].stage = "answered"}
    IN  [status |-> 200,
         body |-> IF req.method = "HEAD" THEN NoBody
                  ELSE JsonObject({<<"message", "Hello from Server">>,
                                   <<"served", IF busy = {} THEN "none" ELSE "some">>})]

\* (req, res) => { res.json({ message: "Hello from Server" }); }
RouteHandler(req) ==
    [status |-> 200,
     body |-> IF req.method = "HEAD" THEN NoBody ELSE Payload]

\* The framework's final handler: the not-found page, or the error's page.
FinalHandler(status) == [status |-> status, body |-> HtmlPage]

\* The whole chain: app.use(express.json()); app.use(cors(...));
\* app.get("/api/message", ...); then the final handler.  An error of
\* express.json() skips cors() and the route.
Respond(v, req) ==
    LET parsed == ExpressJson(req)
        headers == [acao |-> CorsOrigin(v, req), acac |-> CorsCredentials(v, req)]
        none == [acao |-> Absent, acac |-> Absent]
        Reply(r, h) ==
            [status |-> r.status, body |-> r.body, acao |-> h.acao, acac |-> h.acac]
    IN  IF parsed = "400" THEN Reply(FinalHandler(400), none)
        ELSE IF parsed = "413" THEN Reply(FinalHandler(413), none)
        ELSE IF CorsEnds(req) THEN Reply([status |-> 204, body |-> NoBody], headers)
        ELSE IF RouteMatches(req) THEN Reply(RouteHandler(req), headers)
        ELSE Reply(FinalHandler(404), headers)

NoRequest ==
    [method |-> "-", path |-> "-", origin |-> Absent, payload |-> "none"]

NoResponse ==
    [status |-> 0, body |-> NoBody, acao |-> Absent, acac |-> Absent]

Idle == [stage |-> "idle", req |-> NoRequest, resp |-> NoResponse]

\* A request arrives on a free connection; its body is still being read.
Receive(s, R) ==
    /\ slot[s].stage = "idle"
    /\ \E req \in R :
           slot' = [slot EXCEPT ![s] = [stage |-> "reading", req |-> req,
                                        resp |-> NoResponse]]
    /\ UNCHANGED <<variant, clientVars>>

\* The body is read and the chain runs to its end in one turn of the event
\* loop.
Handle(s) ==
    /\ slot[s].stage = "reading"
    /\ slot' = [slot EXCEPT ![s] = [stage |-> "answered", req |-> slot[s].req,
                                    resp |-> Respond(variant, slot[s].req)]]
    /\ UNCHANGED <<variant, clientVars>>

\* The response has been sent and the connection is free again.
Finish(s) ==
    /\ slot[s].stage = "answered"
    /\ slot' = [slot EXCEPT ![s] = Idle]
    /\ UNCHANGED <<variant, clientVars>>

----------------------------------------------------------------------------
(* The client: the component App.                                          *)

Mounts == 1 .. MaxMounts

\* JavaScript values of the message state: a string, or undefined.
Str(s) == [t |-> "string", s |-> s]
Undefined == [t |-> "undefined", s |-> ""]

\* <h2>Data from backend: {message}</h2>; undefined renders as nothing.
RenderText(msg) ==
    "Data from backend: " \o (IF msg.t = "string" THEN msg.s ELSE "")

\* A dependency list of [message], which runs the effect again after the
\* state has changed.
EffectDepsMessage(msg) == <<msg>>

\* The dependency list of useEffect: [].
EffectDeps(msg) == <<>>

\* fetch("/api/message"): a GET without a body; the relative path makes it a
\* same-origin request, which carries no Origin header.
ClientRequest ==
    [method |-> "GET", path |-> "/api/message", origin |-> Absent,
     payload |-> "none"]

\* Responses that do not come from the backend (a proxy or a static host in
\* front of it answers): a status and a body.
OtherResponses ==
    {<<200, JsonObject({<<"message", " padded ">>})>>,
     <<404, JsonObject({<<"message", " padded ">>})>>,
     <<500, JsonObject({<<"error", "Not Found">>})>>,
     <<200, JsonNull>>,
     <<404, HtmlPage>>}

Pending == [kind |-> "pending", why |-> "-", resp |-> NoResponse]

\* The ways the fetch promise settles: it is rejected (the server cannot be
\* reached, or the browser's CORS check fails), or it is fulfilled with a
\* response, of any status: the backend's own, or another one.
FetchOutcomes ==
    {[kind |-> "rejected", why |-> w, resp |-> NoResponse] :
        w \in {"network", "cors"}}
    \cup {[kind |-> "response", why |-> "server",
           resp |-> Respond(variant, ClientRequest)]}
    \cup {[kind |-> "response", why |-> "other",
           resp |-> [status |-> r[1], body |-> r[2], acao |-> Absent,
                     acac |-> Absent]] :
             r \in OtherResponses}

\* A promise of the chain: fulfilled with a value, or rejected.
NoPromise == [state |-> "none", value |-> NoBody]
Fulfilled(v) == [state |-> "fulfilled", value |-> v]
Rejected == [state |-> "rejected", value |-> NoBody]

\* res.json(): the parsed body, or a rejection when the body is not JSON.
ResJson(res) ==
    IF res.body.kind \in {"json", "jsonnull"} THEN Fulfilled(res.body)
    ELSE Rejected

\* data.message: the field's value, or undefined when data has no such field.
DataMessage(data) ==
    LET vs == {f[2] : f \in {g \in data.fields : g[1] = "message"}}
    IN  IF vs = {} THEN Undefined ELSE Str(CHOOSE v \in vs : TRUE)

\* String.prototype.trim on the strings of the model.
Trim(s) == IF s = " padded " THEN "padded" ELSE s

\* A callback that trims what it stores: setMessage(data.message.trim()).
SetCallbackTrimmed(data) ==
    IF data.kind = "jsonnull" \/ DataMessage(data).t # "string"
    THEN [called |-> FALSE, arg |-> Undefined, result |-> Rejected]
    ELSE [called |-> TRUE, arg |-> Str(Trim(DataMessage(data).s)),
          result |-> Fulfilled(NoBody)]

\* A callback that uses the message after storing it, and throws when there
\* is none: setMessage(data.message); document.title = data.message.trim().
SetCallbackThrowsAfter(data) ==
    IF data.kind = "jsonnull"
    THEN [called |-> FALSE, arg |-> Undefined, result |-> Rejected]
    ELSE [called |-> TRUE, arg |-> DataMessage(data),
          result |-> IF DataMessage(data).t = "string" THEN Fulfilled(NoBody)
                     ELSE Rejected]

\* (data) => { setMessage(data.message); }: whether setMessage is called,
\* with what, and how the callback ends.  Reading .message of null throws.
SetCallback(data) ==
    IF data.kind = "jsonnull"
    THEN [called |-> FALSE, arg |-> Undefined, result |-> Rejected]
    ELSE [called |-> TRUE, arg |-> DataMessage(data), result |-> Fulfilled(NoBody)]

\* A handler that writes the message and then the error, on a line each.
CatchCallbackTwoLines(err) == [lines |-> 2, result |-> Fulfilled(NoBody)]

\* (err) => { console.log("Error fetching the data from ..."); }: the lines
\* written, and how the callback ends.
CatchCallback(err) == [lines |-> 1, result |-> Fulfilled(NoBody)]

\* The first render and the effect after it: fetch("/api/message").
Mount(m) ==
    /\ pc[m] = "unmounted"
    /\ text' = [text EXCEPT ![m] = RenderText(message[m])]
    /\ shown' = [shown EXCEPT ![m] = message[m]]
    /\ fetches' = [fetches EXCEPT ![m] = @ + 1]
    /\ pc' = [pc EXCEPT ![m] = "fetching"]
    /\ UNCHANGED <<serverVars, settled, chain, message, dirty, setCalls, logs,
                   changes, unhandled>>

\* The fetch promise settles.
Settle(m) ==
    /\ pc[m] = "fetching"
    /\ \E o \in FetchOutcomes :
           /\ settled' = [settled EXCEPT ![m] = o]
           /\ chain' = [chain EXCEPT ![m] =
                  IF o.kind = "response" THEN Fulfilled(o.resp) ELSE Rejected]
    /\ pc' = [pc EXCEPT ![m] = "json"]
    /\ UNCHANGED <<serverVars, message, text, dirty, shown, fetches, setCalls,
                   logs, changes, unhandled>>

\* .then((res) => res.json())
ThenJson(m) ==
    /\ pc[m] = "json"
    /\ chain' = [chain EXCEPT ![m] =
           IF chain[m].state = "fulfilled" THEN ResJson(chain[m].value)
           ELSE chain[m]]
    /\ pc' = [pc EXCEPT ![m] = "set"]
    /\ UNCHANGED <<serverVars, settled, message, text, dirty, shown, fetches,
                   setCalls, logs, changes, unhandled>>

\* .then((data) => { setMessage(data.message); })
ThenSet(m) ==
    /\ pc[m] = "set"
    /\ IF chain[m].state = "fulfilled"
       THEN LET cb == SetCallback(chain[m].value)
                changed == cb.called /\ cb.arg # message[m]
            IN  /\ chain' = [chain EXCEPT ![m] = cb.result]
                /\ setCalls' = [setCalls EXCEPT ![m] = IF cb.called THEN @ + 1 ELSE @]
                /\ message' = [message EXCEPT ![m] = IF cb.called THEN cb.arg ELSE @]
                /\ changes' = [changes EXCEPT ![m] = IF changed THEN @ + 1 ELSE @]
                /\ dirty' = [dirty EXCEPT ![m] = @ \/ changed]
       ELSE UNCHANGED <<chain, setCalls, message, changes, dirty>>
    /\ pc' = [pc EXCEPT ![m] = "catch"]
    /\ UNCHANGED <<serverVars, settled, text, shown, fetches, logs, unhandled>>

\* .catch((err) => { console.log(...); }); nothing follows it in the chain,
\* so a rejection that leaves it is unhandled.
Catch(m) ==
    /\ pc[m] = "catch"
    /\ IF chain[m].state = "rejected"
       THEN LET cb == CatchCallback(chain[m])
            IN  /\ logs' = [logs EXCEPT ![m] = @ + cb.lines]
                /\ chain' = [chain EXCEPT ![m] = cb.result]
                /\ unhandled' = [unhandled EXCEPT ![m] = cb.result.state = "rejected"]
       ELSE UNCHANGED <<logs, chain, unhandled>>
    /\ pc' = [pc EXCEPT ![m] = "done"]
    /\ UNCHANGED <<serverVars, settled, message, text, dirty, shown, fetches,
                   setCalls, changes>>

\* The re-render a state change asks for.  The effect runs again only when
\* its dependency list differs from that of the last render.
Render(m) ==
    /\ dirty[m]
    /\ text' = [text EXCEPT ![m] = RenderText(message[m])]
    /\ shown' = [shown EXCEPT ![m] = message[m]]
    /\ dirty' = [dirty EXCEPT ![m] = FALSE]
    /\ IF EffectDeps(shown[m]) # EffectDeps(message[m]) /\ fetches[m] < MaxFetches
       THEN /\ fetches' = [fetches EXCEPT ![m] = @ + 1]
            /\ pc' = [pc EXCEPT ![m] = "fetching"]
            /\ chain' = [chain EXCEPT ![m] = NoPromise]
       ELSE UNCHANGED <<fetches, pc, chain>>
    /\ UNCHANGED <<serverVars, settled, message, setCalls, logs, changes,
                   unhandled>>

----------------------------------------------------------------------------

Init ==
    /\ variant \in Variants
    /\ slot = [s \in Connections |-> Idle]
    /\ pc = [m \in Mounts |-> "unmounted"]
    /\ settled = [m \in Mounts |-> Pending]
    /\ chain = [m \in Mounts |-> NoPromise]
    /\ message = [m \in Mounts |-> Str("")]
    /\ text = [m \in Mounts |-> ""]
    /\ dirty = [m \in Mounts |-> FALSE]
    /\ shown = [m \in Mounts |-> Str("")]
    /\ fetches = [m \in Mounts |-> 0]
    /\ setCalls = [m \in Mounts |-> 0]
    /\ logs = [m \in Mounts |-> 0]
    /\ changes = [m \in Mounts |-> 0]
    /\ unhandled = [m \in Mounts |-> FALSE]

\* One connection, every request of the alphabet.
Next ==
    \/ Receive(1, Requests)
    \/ Handle(1)
    \/ Finish(1)

Spec == Init /\ [][Next]_vars

\* Several connections at once.
ConcNext ==
    \E s \in Connections :
        \/ Receive(s, ConcRequests)
        \/ Handle(s)
        \/ Finish(s)

ConcSpec == Init /\ [][ConcNext]_vars

\* The mounts of App.
ClientNext ==
    \E m \in Mounts :
        \/ Mount(m)
        \/ Settle(m)
        \/ ThenJson(m)
        \/ ThenSet(m)
        \/ Catch(m)
        \/ Render(m)

\* The event loop runs every promise reaction that is ready, and React every
\* render a state change has asked for.  Nothing makes a fetch settle.
ClientSpec ==
    /\ Init
    /\ [][ClientNext]_vars
    /\ \A m \in Mounts :
           /\ WF_vars(ThenJson(m))
           /\ WF_vars(ThenSet(m))
           /\ WF_vars(Catch(m))
           /\ WF_vars(Render(m))

----------------------------------------------------------------------------
(* The backend's claims.                                                   *)

Answered(s) == slot[s].stage = "answered"

\* The payloads express.json() lets through: no body, a body that is not
\* declared as JSON, an empty body, a well-formed JSON object or array.
AcceptedPayloads == {"none", "text", "empty", "object", "array"}

\* C1, as claimed: every GET to /api/message, whatever its body and headers,
\* is answered 200 with exactly { message: "Hello from Server" }.
C1_AlwaysMessage ==
    \A s \in Connections :
        (Answered(s) /\ slot[s].req.method = "GET"
                     /\ slot[s].req.path = "/api/message")
            => /\ slot[s].resp.status = 200
               /\ slot[s].resp.body
                      = JsonObject({<<"message", "Hello from Server">>})

\* C1, amended: every GET to /api/message whose body express.json() lets
\* through (none, not declared as JSON, empty, or a well-formed JSON object
\* or array), whatever its Origin header, is answered 200 with exactly
\* { message: "Hello from Server" }; a body express.json() rejects ends the
\* request with the framework's error page, 400 or 413.
C1_MessageWhenBodyAccepted ==
    \A s \in Connections :
        (Answered(s) /\ slot[s].req.method = "GET"
                     /\ slot[s].req.path = "/api/message")
            => IF slot[s].req.payload \in AcceptedPayloads
               THEN /\ slot[s].resp.status = 200
                    /\ slot[s].resp.body
                           = JsonObject({<<"message", "Hello from Server">>})
               ELSE /\ slot[s].resp.status \in {400, 413}
                    /\ slot[s].resp.body = HtmlPage

\* C1's case: a GET to /api/message with a well-formed JSON body, from an
\* origin that is not listed, has been answered with the message.
C1_Witness ==
    \E s \in Connections :
        /\ Answered(s)
        /\ slot[s].req = [method |-> "GET", path |-> "/api/message",
                          origin |-> "http://evil.example", payload |-> "object"]
        /\ slot[s].resp.status = 200

\* A response's Access-Control-Allow-Origin matches an origin when it is
\* that origin or the wildcard.
AcaoMatches(resp, o) ==
    \/ resp.acao = "*"
    \/ (resp.acao # Absent /\ resp.acao = o)

C3_EchoesListedOrigin ==
    \A s \in Connections :
        (variant = "allowlist" /\ Answered(s) /\ slot[s].req.origin \in origin)
            => /\ slot[s].resp.acao = slot[s].req.origin
               /\ slot[s].resp.acac = "true"

\* C3, amended: in the allow-list variant every response to a request from a
\* listed origin whose body express.json() lets through carries that origin
\* in Access-Control-Allow-Origin and Access-Control-Allow-Credentials: true;
\* the error page of a request express.json() rejects carries neither.
C3_EchoesListedOriginWhenBodyAccepted ==
    \A s \in Connections :
        (variant = "allowlist" /\ Answered(s) /\ slot[s].req.origin \in origin)
            => IF slot[s].req.payload \in AcceptedPayloads
               THEN /\ slot[s].resp.acao = slot[s].req.origin
                    /\ slot[s].resp.acac = "true"
               ELSE /\ slot[s].resp.acao = Absent
                    /\ slot[s].resp.acac = Absent

\* C3's case: the allow-list variant has answered a request from the second
\* listed origin with that origin and the credentials header.
C3_Witness ==
    \E s \in Connections :
        /\ variant = "allowlist"
        /\ Answered(s)
        /\ slot[s].req.origin = "http://localhost:5174"
        /\ slot[s].resp.acao = "http://localhost:5174"
        /\ slot[s].resp.acac = "true"

Unrouted == {"POST", "PUT", "DELETE", "PATCH"}

----------------------------------------------------------------------------
(* The client's claims.                                                    *)

\* The message strings that reach the client in this model.
Messages == {"Hello from Server", " padded "}

\* The fetch of mount m resolved with a response whose JSON body has the
\* message field msg.
ResolvedWithMessage(m, msg) ==
    /\ settled[m].kind = "response"
    /\ settled[m].resp.body.kind = "json"
    /\ <<"message", msg>> \in settled[m].resp.body.fields

\* C4: when the fetch of a mount resolves with a response whose JSON body has
\* a message field m (a string), the message state comes to equal m exactly
\* and the rendered text "Data from backend: " followed by m, and they stay
\* so once the chain has ended; with the backend's own response the text is
\* "Data from backend: Hello from Server".
C4_DisplaysMessageExactly ==
    /\ [](\A m \in Mounts : \A msg \in Messages :
            (ResolvedWithMessage(m, msg) /\ pc[m] = "done" /\ ~dirty[m])
                => /\ message[m] = Str(msg)
                   /\ text[m] = "Data from backend: " \o msg)
    /\ [](\A m \in Mounts :
            (settled[m].why = "server" /\ pc[m] = "done" /\ ~dirty[m])
                => text[m] = "Data from backend: Hello from Server")
    /\ \A m \in Mounts :
           (\E msg \in Messages : ResolvedWithMessage(m, msg))
               ~> (\E msg \in Messages :
                       /\ ResolvedWithMessage(m, msg)
                       /\ pc[m] = "done"
                       /\ message[m] = Str(msg)
                       /\ text[m] = "Data from backend: " \o msg)

\* C4's case: a mount whose fetch resolved with a message that has spaces
\* around it shows it untrimmed, and another shows the backend's message.
C4_Witness ==
    \E m, n \in Mounts :
        /\ ResolvedWithMessage(m, " padded ")
        /\ text[m] = "Data from backend:  padded "
        /\ settled[n].why = "server"
        /\ settled[n].resp.status = 200
        /\ text[n] = "Data from backend: Hello from Server"

\* The fetch of mount m was rejected because the server could not be reached.
Unreachable(m) == settled[m].kind = "rejected" /\ settled[m].why = "network"

\* C5: when the fetch of a mount is rejected because the server is
\* unreachable, the message state is the empty string in every later state,
\* setMessage is never called, never more than one console line is written
\* and exactly one eventually is, and the chain ends without an unhandled
\* rejection.
C5_UnreachableLogsOnce ==
    /\ [](\A m \in Mounts :
            Unreachable(m)
                => /\ message[m] = Str("")
                   /\ text[m] = "Data from backend: "
                   /\ setCalls[m] = 0
                   /\ logs[m] <= 1
                   /\ ~unhandled[m]
                   /\ (pc[m] = "done" => logs[m] = 1 /\ chain[m].state = "fulfilled"))
    /\ \A m \in Mounts : Unreachable(m) ~> (pc[m] = "done" /\ logs[m] = 1)

\* C5's case: the chain of a mount whose server was unreachable has ended,
\* with one line written.
C5_Witness ==
    \E m \in Mounts :
        /\ Unreachable(m)
        /\ pc[m] = "done"
        /\ logs[m] = 1
        /\ message[m] = Str("")

\* The request of mount m failed: the fetch was rejected, or the response's
\* status is not a 2xx one.
Failed(m) ==
    \/ settled[m].kind = "rejected"
    \/ (settled[m].kind = "response"
          /\ ~(settled[m].resp.status >= 200 /\ settled[m].resp.status < 300))

\* C6: a network failure, a CORS rejection and a non-2xx response are treated
\* alike: setMessage is never reached, the message state stays the empty
\* string, and one console line is written.
C6_FailuresTreatedAlike ==
    \A m \in Mounts :
        Failed(m)
            => /\ setCalls[m] = 0
               /\ message[m] = Str("")
               /\ (pc[m] = "done" => logs[m] = 1)

\* What the outcome of its own request makes of the message state of mount m.
OwnMessage(m) ==
    IF /\ pc[m] \in {"catch", "done"}
       /\ settled[m].kind = "response"
       /\ settled[m].resp.body.kind = "json"
    THEN DataMessage(settled[m].resp.body)
    ELSE Str("")

\* C7: each mount calls fetch exactly once, whatever it renders again and
\* however its request ends; the message state of a mount is determined by
\* the outcome of its own request alone; and a request in flight can settle
\* whatever the state of the other mounts.
C7_OneIndependentFetchPerMount ==
    \A m \in Mounts :
        /\ fetches[m] = (IF pc[m] = "unmounted" THEN 0 ELSE 1)
        /\ message[m] = OwnMessage(m)
        /\ (pc[m] = "fetching" => ENABLED Settle(m))

\* C7's case: two mounts, each with one fetch; one has ended with the
\* backend's message shown after its re-render, the other in a rejection.
C7_Witness ==
    \E m, n \in Mounts :
        /\ pc[m] = "done" /\ pc[n] = "done"
        /\ settled[m].why = "server" /\ ~dirty[m]
        /\ message[m] = Str("Hello from Server")
        /\ settled[n].kind = "rejected"
        /\ message[n] = Str("")
        /\ fetches[m] = 1 /\ fetches[n] = 1

\* C10: within one mount setMessage is called at most once and the console
\* line written at most once, never both; the message state changes at most
\* once and, once it is not the empty string, never is again; and once the
\* fetch promise has settled exactly one of the two eventually happens.
C10_ExactlyOneOutcome ==
    /\ [](\A m \in Mounts :
            /\ setCalls[m] <= 1
            /\ logs[m] <= 1
            /\ setCalls[m] + logs[m] <= 1
            /\ changes[m] <= 1
            /\ (pc[m] = "done" => setCalls[m] + logs[m] = 1))
    /\ [][\A m \in Mounts :
            message[m] # Str("") => message'[m] # Str("")]_vars
    /\ \A m \in Mounts :
           (settled[m].kind # "pending") ~> (setCalls[m] + logs[m] = 1)

\* C10's case: one mount has ended in setMessage alone, with its state
\* changed once, and another in the console line alone.
C10_Witness ==
    \E m, n \in Mounts :
        /\ pc[m] = "done" /\ setCalls[m] = 1 /\ logs[m] = 0 /\ changes[m] = 1
        /\ pc[n] = "done" /\ setCalls[n] = 0 /\ logs[n] = 1 /\ changes[n] = 0

====
